---------------------------- MODULE Spec2Model ----------------------------
(***************************************************************************)
(* A model of build.py (dagenslunch): the text normaliser clean_lines, the *)
(* two extractors parse_fei and parse_cirkeln, the page renderer and the   *)
(* run of main.                                                            *)
(*                                                                         *)
(* A Python str is a sequence of one-character strings.  A character       *)
(* outside ASCII is written by its code point ("U+00E5" is a-ring).        *)
(* A parsed document is the flat sequence of the sibling elements of one   *)
(* parent, each element a record [name, text, lis]: its tag name, its      *)
(* get_text(" ", strip=True) and, for a list, the texts of its <li>.       *)
(***************************************************************************)
EXTENDS Integers, Sequences, FiniteSets, TLC

VARIABLES
    pc,             \* position of the run / of the function under study
    text,           \* clean_lines: the input text
    lines,          \* clean_lines: the returned list
    soup,           \* the parsed document given to an extractor
    weekday_upper,  \* the target weekday, upper case
    items,          \* the list an extractor returned
    tried,          \* parse_fei: the item list each candidate tried yielded
    full,           \* parse_cirkeln: the combined string
    block,          \* parse_cirkeln: m.group(1), or NoMatch
    world,          \* main: what each source's fetch meets (the environment)
    day_menus,      \* main: the list built by the source loop
    fetches,        \* main: number of fetch calls per source
    html,           \* main: the rendered page (its restaurant cards)
    written,        \* main: number of times index.html was written
    status          \* main: exit status, or where an exception escaped

vars == <<pc, text, lines, soup, weekday_upper, items, tried, full, block,
          world, day_menus, fetches, html, written, status>>

----------------------------------------------------------------------------
(* Bounds of the model *)

MaxTextLen == 5

----------------------------------------------------------------------------
(* Characters *)

aring == "U+00E5"
ARING == "U+00C5"
ouml == "U+00F6"
auml == "U+00E4"
OUML == "U+00D6"
bullet == "U+2022"
endash == "U+2013"
emdash == "U+2014"

\* the characters \s matches, among those the model uses
Whitespace == {" ", "\t", "\n", "\r"}

\* the line boundaries of str.splitlines, among those the model uses
LineBreaks == {"\n", "\r"}

\* the argument of str.strip in clean_lines
StripChars == {" ", bullet, "*", "-", endash, emdash, "."}

LowerLetters ==
    <<"a","b","c","d","e","f","g","h","i","j","k","l","m","n","o","p","q",
      "r","s","t","u","v","w","x","y","z", aring, ouml>>

UpperLetters ==
    <<"A","B","C","D","E","F","G","H","I","J","K","L","M","N","O","P","Q",
      "R","S","T","U","V","W","X","Y","Z", ARING, OUML>>

\* c.upper() and c.lower() of one character
UpperOf == [c \in {LowerLetters[k] : k \in 1..Len(LowerLetters)} |->
               UpperLetters[CHOOSE k \in 1..Len(LowerLetters) : LowerLetters[k] = c]]

LowerOf == [c \in {UpperLetters[k] : k \in 1..Len(UpperLetters)} |->
               LowerLetters[CHOOSE k \in 1..Len(UpperLetters) : UpperLetters[k] = c]]

UpperChar(c) == IF c \in DOMAIN UpperOf THEN UpperOf[c] ELSE c

LowerChar(c) == IF c \in DOMAIN LowerOf THEN LowerOf[c] ELSE c

\* str.upper
Upper(s) == [k \in 1..Len(s) |-> UpperChar(s[k])]

\* str.capitalize
Capitalize(s) ==
    [k \in 1..Len(s) |-> IF k = 1 THEN UpperChar(s[k]) ELSE LowerChar(s[k])]

\* sep.join(parts)
RECURSIVE Join(_, _)
Join(sep, parts) ==
    IF parts = <<>> THEN <<>>
    ELSE IF Len(parts) = 1 THEN parts[1]
    ELSE parts[1] \o sep \o Join(sep, Tail(parts))

\* s[i:].startswith(p)
MatchAt(s, i, p) ==
    /\ i + Len(p) - 1 <= Len(s)
    /\ \A k \in 1..Len(p) : s[i + k - 1] = p[k]

\* the same, ignoring case (re.IGNORECASE)
MatchAtCI(s, i, p) ==
    /\ i + Len(p) - 1 <= Len(s)
    /\ \A k \in 1..Len(p) : UpperChar(s[i + k - 1]) = UpperChar(p[k])

----------------------------------------------------------------------------
(* clean_lines *)

\* text.splitlines(): "\r\n" is one boundary, a final boundary opens no line
RECURSIVE SplitFrom(_, _, _)
SplitFrom(s, i, start) ==
    IF i > Len(s)
    THEN IF start > Len(s) THEN <<>> ELSE <<SubSeq(s, start, Len(s))>>
    ELSE IF s[i] \in LineBreaks
         THEN LET w == IF s[i] = "\r" /\ i < Len(s) /\ s[i + 1] = "\n"
                       THEN 2 ELSE 1
              IN  <<SubSeq(s, start, i - 1)>> \o SplitFrom(s, i + w, i + w)
         ELSE SplitFrom(s, i + 1, start)

splitlines(s) == SplitFrom(s, 1, 1)

\* re.sub(r"\s+", " ", ln)
RECURSIVE CollapseFrom(_, _)
CollapseFrom(ln, i) ==
    IF i > Len(ln) THEN <<>>
    ELSE (IF ln[i] \in Whitespace
          THEN (IF i > 1 /\ ln[i - 1] \in Whitespace THEN <<>> ELSE <<" ">>)
          ELSE <<ln[i]>>) \o CollapseFrom(ln, i + 1)

CollapseWhitespace(ln) == CollapseFrom(ln, 1)

\* a plausible slip: lstrip for strip
StripLeftOnly(s, chars) ==
    LET keep == {k \in 1..Len(s) : s[k] \notin chars}
    IN  IF keep = {} THEN <<>>
        ELSE SubSeq(s, CHOOSE k \in keep : \A j \in keep : k <= j, Len(s))

\* s.strip(chars)
Strip(s, chars) ==
    LET keep == {k \in 1..Len(s) : s[k] \notin chars}
    IN  IF keep = {} THEN <<>>
        ELSE SubSeq(s, CHOOSE k \in keep : \A j \in keep : k <= j,
                       CHOOSE k \in keep : \A j \in keep : k >= j)

NonEmpty(ln) == ln /= <<>>

clean_lines(t) ==
    LET sp == splitlines(t)
        ls == [k \in 1..Len(sp) |-> Strip(CollapseWhitespace(sp[k]), StripChars)]
    IN  SelectSeq(ls, NonEmpty)

----------------------------------------------------------------------------
(* clean_lines applied to every text over a small alphabet *)

TextAlphabet == {" ", "\t", "\n", "\r", "-", "a"}

Texts == UNION {[1..n -> TextAlphabet] : n \in 0..MaxTextLen}

InitClean ==
    /\ pc = "start"
    /\ \E t \in Texts : text = t
    /\ lines = <<>> /\ soup = <<>> /\ weekday_upper = <<>>
    /\ items = <<>> /\ tried = <<>> /\ full = <<>> /\ block = <<>>
    /\ world = <<>> /\ day_menus = <<>> /\ fetches = <<>> /\ html = <<>>
    /\ written = 0 /\ status = "running"

CleanLines ==
    /\ pc = "start"
    /\ lines' = clean_lines(text)
    /\ pc' = "done"
    /\ UNCHANGED <<text, soup, weekday_upper, items, tried, full, block,
                   world, day_menus, fetches, html, written, status>>

NextClean == CleanLines

SpecClean == InitClean /\ [][NextClean]_vars

\* the characters of s that are not whitespace
NoWs(c) == c \notin Whitespace

\* the input lines with something left once whitespace and decoration go
Surviving(t) ==
    LET sp == splitlines(t)
        IsKept(ln) == \E k \in 1..Len(ln) : ln[k] \notin (Whitespace \cup StripChars)
    IN  SelectSeq(sp, IsKept)

\* C7: every line clean_lines returns is non-empty, holds no whitespace but
\* single spaces, and neither begins nor ends with a decorative character;
\* the lines returned are the input lines that hold more than whitespace
\* and decoration, in the input order.
C7_Normalized ==
    pc = "done" =>
        /\ \A k \in 1..Len(lines) :
              LET ln == lines[k] IN
              /\ ln /= <<>>
              /\ \A j \in 1..Len(ln) : ln[j] \in Whitespace => ln[j] = " "
              /\ \A j \in 1..(Len(ln) - 1) : ~(ln[j] = " " /\ ln[j + 1] = " ")
              /\ ln[1] \notin StripChars
              /\ ln[Len(ln)] \notin StripChars
        /\ LET sv == Surviving(text) IN
              /\ Len(lines) = Len(sv)
              /\ \A k \in 1..Len(sv) :
                    SelectSeq(lines[k], NoWs)
                        = Strip(SelectSeq(sv[k], NoWs), StripChars)

\* a text with a decorated line, a blank line and a second line was cleaned
C7_Witness ==
    /\ pc = "done"
    /\ text = <<"-", "a", "\t", "\n", "a">>
    /\ lines = <<<<"a">>, <<"a">>>>

----------------------------------------------------------------------------
(* Words of the program *)

TISDAG == <<"T","I","S","D","A","G">>
ONSDAG == <<"O","N","S","D","A","G">>

WEEKDAYS_FULL ==
    << <<"M",ARING,"N","D","A","G">>, TISDAG, ONSDAG,
       <<"T","O","R","S","D","A","G">>, <<"F","R","E","D","A","G">>,
       <<"L",OUML,"R","D","A","G">>, <<"S",OUML,"N","D","A","G">> >>

PRIS_OCH_OPPETTIDER ==
    <<"P","R","I","S"," ","O","C","H"," ",OUML,"P","P","E","T","T","I","D","E","R">>

VECKANS_VEGETARISKA ==
    <<"V","E","C","K","A","N","S"," ","V","E","G","E","T","A","R","I","S","K","A">>

Range(f) == {f[k] : k \in DOMAIN f}

Digit(d) == <<"0","1","2","3","4","5","6","7","8","9">>[d + 1]

\* the two-digit numeral of i: the mark a sibling's text carries in the
\* generated documents, so that a line can be traced to its sibling
Numeral(i) == <<Digit((i \div 10) % 10), Digit(i % 10)>>

Contains(s, p) == \E i \in 1..(Len(s) - Len(p) + 1) : MatchAt(s, i, p)

----------------------------------------------------------------------------
(* parse_fei *)

HopBound == 6
StepBound == 12

CandidateTags == {"h2", "h3", "h4", "strong", "p"}

\* the tags whose text is the weekday, in document order
Candidates(doc, wd) ==
    LET IsCand(i) == /\ doc[i].name \in CandidateTags
                     /\ Upper(doc[i].text) = wd
    IN  SelectSeq([i \in 1..Len(doc) |-> i], IsCand)

\* the siblings the hop loop passes over
IsBlank(el) == el.name = "br" \/ el.text = <<>>

\* the hop loop; 0 is None
RECURSIVE SkipBlanks(_, _, _)
SkipBlanks(doc, i, hops) ==
    IF i > Len(doc) THEN 0
    ELSE IF hops < HopBound /\ IsBlank(doc[i])
         THEN SkipBlanks(doc, i + 1, hops + 1)
         ELSE i

stop_words == Range(WEEKDAYS_FULL) \cup {PRIS_OCH_OPPETTIDER, VECKANS_VEGETARISKA}

\* a plausible slip: the comparison without .upper()
IsStopWordCaseSensitive(t) == t /= <<>> /\ t \in stop_words

IsStopWord(t) == t /= <<>> /\ Upper(t) \in stop_words

\* the running-text walk: block_text
RECURSIVE Walk(_, _, _)
Walk(doc, walker, steps) ==
    IF walker > Len(doc) \/ steps >= StepBound THEN <<>>
    ELSE LET t == doc[walker].text
         IN  IF IsStopWord(t) THEN <<>>
             ELSE (IF t /= <<>> THEN <<t>> ELSE <<>>)
                      \o Walk(doc, walker + 1, steps + 1)

LongerThan3(ln) == Len(ln) > 3

\* what one pass of the candidate loop appends to items
CandidateItems(doc, tag) ==
    LET next_el == SkipBlanks(doc, tag + 1, 0)
    IN  IF next_el = 0 THEN <<>>
        ELSE IF doc[next_el].name = "ul"
             THEN SelectSeq(doc[next_el].lis, NonEmpty)
             ELSE SelectSeq(clean_lines(Join(<<"\n">>, Walk(doc, next_el, 0))),
                            LongerThan3)

\* a plausible slip: the loop without its break
NeverBreak(its) == FALSE

\* if items: break
BreakLoop(its) == its /= <<>>

\* the candidate loop from the k-th candidate on
RECURSIVE FeiLoop(_, _, _, _, _)
FeiLoop(doc, cands, k, its, seen) ==
    IF k > Len(cands) THEN [items |-> its, tried |-> seen]
    ELSE LET got == CandidateItems(doc, cands[k])
             its2 == its \o got
             seen2 == Append(seen, [tag |-> cands[k], got |-> got])
         IN  IF BreakLoop(its2) THEN [items |-> its2, tried |-> seen2]
             ELSE FeiLoop(doc, cands, k + 1, its2, seen2)

parse_fei_run(doc, wd) == FeiLoop(doc, Candidates(doc, wd), 1, <<>>, <<>>)

parse_fei(doc, wd) == parse_fei_run(doc, wd).items

----------------------------------------------------------------------------
(* Documents for parse_fei *)

MaxBlanks == 7
MaxParas == 13

RATT == <<"R","a","t","t">>

\* get_text(" ", strip=True) of a list
UlText(lis) == Join(<<" ">>, SelectSeq(lis, NonEmpty))

SoppaFisk == << <<"S","o","p","p","a">>, <<>>, <<"F","i","s","k">> >>

\* the element of kind k at place i of a document
Elem(k, i) ==
    CASE k = "H3"     -> [name |-> "h3", text |-> TISDAG, lis |-> <<>>]
      [] k = "Pl"     -> [name |-> "p", text |-> <<"T","i","s","d","a","g">>, lis |-> <<>>]
      [] k = "br"     -> [name |-> "br", text |-> <<>>, lis |-> <<>>]
      [] k = "ep"     -> [name |-> "p", text |-> <<>>, lis |-> <<>>]
      [] k = "eul"    -> [name |-> "ul", text |-> <<>>, lis |-> << <<>> >>]
      [] k = "ul"     -> [name |-> "ul", text |-> UlText(SoppaFisk), lis |-> SoppaFisk]
      [] k = "para"   -> [name |-> "p", text |-> RATT \o Numeral(i), lis |-> <<>>]
      [] k = "deco"   -> [name |-> "p",
                          text |-> <<"-", " ">> \o RATT \o Numeral(i) \o <<"\t", ".">>,
                          lis |-> <<>>]
      [] k = "short"  -> [name |-> "p", text |-> <<"a", "b">>, lis |-> <<>>]
      [] k = "wd"     -> [name |-> "p", text |-> <<"O","n","s","d","a","g">>, lis |-> <<>>]
      [] k = "marker" -> [name |-> "h3",
                          text |-> <<"P","r","i","s"," ","o","c","h"," ",ouml,
                                     "p","p","e","t","t","i","d","e","r">>,
                          lis |-> <<>>]
      [] k = "div"    -> [name |-> "div", text |-> <<"t","i","s","d","a","g">>, lis |-> <<>>]

Rep(k, n) == [i \in 1..n |-> k]

\* n paragraphs, the s-th of them (if any) a stop element of kind sk
TextRun(n, s, sk) ==
    [i \in 1..n |-> IF i = s THEN sk
                    ELSE IF i % 4 = 2 THEN "deco"
                    ELSE IF i % 4 = 0 THEN "short"
                    ELSE "para"]

Contents ==
    {<<>>, <<"ul">>}
        \cup {TextRun(n, 0, "wd") : n \in 1..MaxParas}
        \cup {TextRun(n, s, sk) : n \in 1..MaxParas, s \in 1..MaxParas,
                                  sk \in {"wd", "marker", "div"}}

SecondBlocks == {<<>>, <<"H3">>, <<"H3", "ul">>, <<"Pl", "br", "para", "deco">>}

FeiShapes ==
    {<<h>> \o Rep(b, k) \o c \o second :
        h \in {"H3"}, b \in {"br", "ep", "eul"}, k \in 0..MaxBlanks,
        c \in Contents, second \in SecondBlocks}

DocOf(shape) == [i \in 1..Len(shape) |-> Elem(shape[i], i)]

InitFei ==
    /\ pc = "start"
    /\ \E sh \in FeiShapes : soup = DocOf(sh)
    /\ weekday_upper \in {TISDAG, ONSDAG}
    /\ items = <<>> /\ tried = <<>>
    /\ text = <<>> /\ lines = <<>> /\ full = <<>> /\ block = <<>>
    /\ world = <<>> /\ day_menus = <<>> /\ fetches = <<>> /\ html = <<>>
    /\ written = 0 /\ status = "running"

ParseFei ==
    /\ pc = "start"
    /\ LET run == parse_fei_run(soup, weekday_upper)
       IN  items' = run.items /\ tried' = run.tried
    /\ pc' = "done"
    /\ UNCHANGED <<text, lines, soup, weekday_upper, full, block,
                   world, day_menus, fetches, html, written, status>>

NextFei == ParseFei

SpecFei == InitFei /\ [][NextFei]_vars

\* the first six siblings after the tag, as far as there are any, are all
\* empty or <br>
NoContentWithinHops(doc, tag) ==
    \A j \in 1..6 : tag + j <= Len(doc) => IsBlank(doc[tag + j])

\* C3: a candidate whose first 6 following siblings are all empty or <br>
\* yields no items, whatever follows them; if that is so of every
\* candidate, parse_fei returns the empty list.
C3_NoContentWithinHopsYieldsNothing ==
    pc = "done" =>
        /\ \A k \in 1..Len(tried) :
              NoContentWithinHops(soup, tried[k].tag) => tried[k].got = <<>>
        /\ (\A c \in Range(Candidates(soup, weekday_upper)) :
              NoContentWithinHops(soup, c)) => items = <<>>

\* some line of its carries the mark of sibling j
Mentions(its, j) == \E k \in 1..Len(its) : Contains(its[k], Numeral(j))

\* the siblings within 12 of the first content sibling f whose whole text
\* is a weekday label or a stop marker, whatever its case
Boundaries(doc, f) ==
    {j \in f..Len(doc) :
        /\ j <= f + 11
        /\ doc[j].text /= <<>>
        /\ Upper(doc[j].text) \in
              Range(WEEKDAYS_FULL) \cup {PRIS_OCH_OPPETTIDER, VECKANS_VEGETARISKA}}

Least(S) == CHOOSE x \in S : \A y \in S : x <= y

C9_FirstMatchWins ==
    pc = "done" =>
        LET cands == Candidates(soup, weekday_upper)
            yielding == {k \in 1..Len(cands) : CandidateItems(soup, cands[k]) /= <<>>}
        IN  IF yielding = {}
            THEN items = <<>> /\ Len(tried) = Len(cands)
            ELSE /\ items = CandidateItems(soup, cands[Least(yielding)])
                 /\ Len(tried) = Least(yielding)
                 /\ \A k \in 1..Len(tried) : tried[k].tag = cands[k]

\* two headings of the weekday both have items, and the result is the
\* first one's
C9_Witness ==
    /\ pc = "done"
    /\ LET cands == Candidates(soup, weekday_upper)
       IN  /\ Len(cands) = 2
           /\ CandidateItems(soup, cands[1]) /= <<>>
           /\ CandidateItems(soup, cands[2]) /= <<>>
           /\ CandidateItems(soup, cands[2]) /= CandidateItems(soup, cands[1])
           /\ items = CandidateItems(soup, cands[1])

----------------------------------------------------------------------------
(* parse_cirkeln *)

WalkBound == 80

LUNCHMENY == <<"L","u","n","c","h","m","e","n","y">>
VECKA == <<"V","e","c","k","a">>

Digits == {"0","1","2","3","4","5","6","7","8","9"}

\* re.search(r"Lunchmeny", t, re.I)
HasLunchmeny(t) == \E i \in 1..Len(t) : MatchAtCI(t, i, LUNCHMENY)

\* re.search(r"Vecka\s+\d+", t, re.I)
HasVecka(t) ==
    \E i \in 1..Len(t) :
        /\ MatchAtCI(t, i, VECKA)
        /\ \E d \in (i + 6)..Len(t) :
              /\ t[d] \in Digits
              /\ \A k \in (i + 5)..(d - 1) : t[k] \in Whitespace

FallbackTags == {"h1", "h2", "h3", "p", "div"}

\* the container: the parent of the first text node matching both
\* patterns, else the first block element whose text holds "Lunchmeny";
\* 0 is None
Container(doc) ==
    LET both == {i \in 1..Len(doc) : HasLunchmeny(doc[i].text) /\ HasVecka(doc[i].text)}
        one == {i \in 1..Len(doc) :
                   doc[i].name \in FallbackTags /\ HasLunchmeny(doc[i].text)}
    IN  IF both /= {} THEN CHOOSE i \in both : \A j \in both : i <= j
        ELSE IF one /= {} THEN CHOOSE i \in one : \A j \in one : i <= j
        ELSE 0

\* a plausible slip: the walk begun at the container's next sibling
WalkStartAfter(container) == container + 1

\* cur = container
WalkStart(container) == container

\* the sibling walk: the list text
RECURSIVE SiblingTexts(_, _, _)
SiblingTexts(doc, cur, steps) ==
    IF cur > Len(doc) \/ steps >= WalkBound THEN <<>>
    ELSE <<doc[cur].text>> \o SiblingTexts(doc, cur + 1, steps + 1)

\* full
CombinedText(doc) ==
    LET container == Container(doc)
        texts == IF container /= 0 THEN SiblingTexts(doc, WalkStart(container), 0)
                 ELSE <<>>
    IN  Join(<<"\n">>, SelectSeq(texts, NonEmpty))

wd_order ==
    << <<"M",aring,"n","d","a","g">>, <<"T","i","s","d","a","g">>, <<"O","n","s","d","a","g">>,
       <<"T","o","r","s","d","a","g">>, <<"F","r","e","d","a","g">> >>

KONTAKT == <<"K","o","n","t","a","k","t">>
OPPETTIDER == <<OUML,"p","p","e","t","t","i","d","e","r">>
VECKANS_VEG == <<"V","e","c","k","a","n","s"," ","v","e","g","e","t","a","r","i","s","k","a">>

\* $ without re.MULTILINE: the end, or just before a final newline
AtEnd(s, e) == e = Len(s) + 1 \/ (e = Len(s) /\ s[e] = "\n")

\* the lookahead (?=(?:Måndag|...|Fredag)\s*|Kontakt|Öppettider|Veckans vegetariska|$)
LookAhead(s, e) ==
    \/ \E k \in 1..Len(wd_order) : MatchAtCI(s, e, wd_order[k])
    \/ MatchAtCI(s, e, KONTAKT)
    \/ MatchAtCI(s, e, OPPETTIDER)
    \/ MatchAtCI(s, e, VECKANS_VEG)
    \/ AtEnd(s, e)

\* the first place from e on where the lookahead holds
RECURSIVE FirstLookAhead(_, _)
FirstLookAhead(s, e) == IF LookAhead(s, e) THEN e ELSE FirstLookAhead(s, e + 1)

\* number of whitespace characters from j on
RECURSIVE WsRun(_, _)
WsRun(s, j) == IF j <= Len(s) /\ s[j] \in Whitespace THEN 1 + WsRun(s, j + 1) ELSE 0

\* the match of  day\s*(.+?)(?=...)  begun at i, under DOTALL and
\* IGNORECASE: \s* takes the most whitespace that leaves .+? a character,
\* .+? the fewest characters that reach the lookahead.  <<>> is no match,
\* <<g>> a match with group 1 = g.
GroupAt(s, i, day) ==
    IF ~MatchAtCI(s, i, day) THEN <<>>
    ELSE LET j == i + Len(day)
             ws == {w \in 0..WsRun(s, j) : j + w <= Len(s)}
         IN  IF ws = {} THEN <<>>
             ELSE LET from == j + (CHOOSE w \in ws : \A v \in ws : w >= v)
                  IN  <<SubSeq(s, from, FirstLookAhead(s, from + 1) - 1)>>

\* re.search: the match at the leftmost place that has one
Search(s, day) ==
    LET at == {i \in 1..Len(s) : GroupAt(s, i, day) /= <<>>}
    IN  IF at = {} THEN <<>>
        ELSE GroupAt(s, CHOOSE i \in at : \A j \in at : i <= j, day)

PRIS == <<"P","r","i","s">>
ELVA == <<"1","1",":">>
DAGENS == <<"D","a","g","e","n","s">>
VECKANS == <<"V","e","c","k","a","n","s">>

\* a plausible slip: the match without re.I
IsBoilerplateCaseSensitive(ln) ==
    \/ MatchAt(ln, 1, PRIS) \/ MatchAt(ln, 1, ELVA)
    \/ MatchAt(ln, 1, DAGENS) \/ MatchAt(ln, 1, VECKANS)

\* re.match(r"^Pris|^11:|^Dagens|^Veckans", ln, re.I)
IsBoilerplate(ln) ==
    \/ MatchAtCI(ln, 1, PRIS) \/ MatchAtCI(ln, 1, ELVA)
    \/ MatchAtCI(ln, 1, DAGENS) \/ MatchAtCI(ln, 1, VECKANS)

KeepLine(ln) == Len(ln) > 3 /\ ~IsBoilerplate(ln)

\* filtered
Filtered(blk) == SelectSeq(clean_lines(blk), KeepLine)

parse_cirkeln_run(doc, wd) ==
    LET f == CombinedText(doc)
        m == Search(f, Capitalize(wd))
    IN  [full |-> f, block |-> m,
         items |-> IF m = <<>> THEN <<>> ELSE Filtered(m[1])]

parse_cirkeln(doc, wd) == parse_cirkeln_run(doc, wd).items

----------------------------------------------------------------------------
(* Documents for parse_cirkeln *)

MaxRich == 4
MaxSibs == 82

El(name, t) == [name |-> name, text |-> t, lis |-> <<>>]

\* the text of kind k of the i-th sibling after the container
CirkelnText(k, i) ==
    CASE k = "mon"     -> <<"M",aring,"n","d","a","g">>
      [] k = "tue"     -> <<"T","i","s","d","a","g">>
      [] k = "wed"     -> <<"O","N","S","D","A","G">>
      [] k = "dish"    -> <<"F","i","s","k">> \o Numeral(i)
      [] k = "tsoup"   -> <<"T","i","s","d","a","g","s","s","o","p","p","a">> \o Numeral(i)
      [] k = "boiler"  -> <<"p","r","i","s"," ","9","5"," ","k","r","\n","1","1",":","3","0","\n",bullet," ","B","i","f","f">> \o Numeral(i)
                              \o <<" ","-","\n","a","b","\n","D","A","G","E","N","S"," ","x","\n","V","e","c","k","a","n","s"," ","p","a","j">>
      [] k = "kontakt" -> <<"K","o","n","t","a","k","t","a"," ","o","s","s">>
      [] k = "empty"   -> <<>>
      [] k = "n"       -> <<"n">> \o Numeral(i)

RichKinds == {"mon", "tue", "wed", "dish", "tsoup", "boiler", "kontakt"}

Anchor(a) ==
    CASE a = "both"     -> <<El("span", <<"M","e","n","y">>),
                             El("h2", <<"L","U","N","C","H","M","E","N","Y"," ","v","e","c","k","a"," "," ","4","2">>)>>
      [] a = "fallback" -> <<El("span", <<"L","u","n","c","h","m","e","n","y">>),
                             El("p", <<"V","e","c","k","a","n","s"," ","l","u","n","c","h","m","e","n","y">>)>>
      [] a = "none"     -> <<El("span", <<"L","u","n","c","h","m","e","n","y">>),
                             El("p", <<"V","e","c","k","a"," ","4","2">>)>>

\* the anchor a followed by siblings of the kinds given
CirkelnDoc(a, kinds) ==
    Anchor(a) \o [i \in 1..Len(kinds) |-> El("p", CirkelnText(kinds[i], i))]

RichDocs ==
    {CirkelnDoc("both", ks) : ks \in UNION {[1..n -> RichKinds] : n \in 0..MaxRich}}

WeekDoc == <<"mon", "dish", "tue", "dish", "boiler", "wed", "dish">>

\* n siblings, the one at emptyAt (if any) with no text
LongDocs ==
    {CirkelnDoc("both", [i \in 1..n |-> IF i = e THEN "empty" ELSE "n"]) :
        n \in 75..MaxSibs, e \in {0, 2, 79, 80}}

InitCirkeln ==
    /\ pc = "start"
    /\ \/ /\ soup \in RichDocs \cup LongDocs
          /\ weekday_upper = TISDAG
       \/ /\ \E a \in {"both", "fallback", "none"} : soup = CirkelnDoc(a, WeekDoc)
          /\ weekday_upper \in Range(WEEKDAYS_FULL)
    /\ items = <<>> /\ tried = <<>> /\ full = <<>> /\ block = <<>>
    /\ text = <<>> /\ lines = <<>>
    /\ world = <<>> /\ day_menus = <<>> /\ fetches = <<>> /\ html = <<>>
    /\ written = 0 /\ status = "running"

ParseCirkeln ==
    /\ pc = "start"
    /\ LET run == parse_cirkeln_run(soup, weekday_upper)
       IN  full' = run.full /\ block' = run.block /\ items' = run.items
    /\ pc' = "done"
    /\ UNCHANGED <<text, lines, soup, weekday_upper, tried,
                   world, day_menus, fetches, html, written, status>>

NextCirkeln == ParseCirkeln

SpecCirkeln == InitCirkeln /\ [][NextCirkeln]_vars

\* the places of s where p occurs, whatever its case
Occurrences(s, p) == {i \in 1..Len(s) : MatchAtCI(s, i, p)}

\* the text between the first occurrence of the weekday name and the
\* earliest following occurrence of another business-day name or of a
\* trailing marker, or the end; <<>> when the name does not occur
ClaimedBlock(s, day) ==
    IF Occurrences(s, day) = {} THEN <<>>
    ELSE LET from == Least(Occurrences(s, day)) + Len(day)
             others == {wd_order[k] : k \in {k \in 1..Len(wd_order) :
                                                Upper(wd_order[k]) /= Upper(day)}}
             ends == {e \in from..Len(s) :
                         \E p \in others \cup {KONTAKT, OPPETTIDER, VECKANS_VEG} :
                             MatchAtCI(s, e, p)}
             to == IF ends = {} THEN Len(s) + 1 ELSE Least(ends)
         IN  SubSeq(s, from, to - 1)

\* C5: the lines returned are the filtered, normalized lines of the text
\* between the first occurrence of the weekday name and the earliest
\* following occurrence of another business-day name, of "Kontakt",
\* "Öppettider" or "Veckans vegetariska", or the end of the string.
C5_BlockOfTargetDay ==
    pc = "done" =>
        items = Filtered(ClaimedBlock(full, Capitalize(weekday_upper)))

\* C6: every line returned is longer than 3 characters and starts, in any
\* case, with none of "Pris", "11:", "Dagens", "Veckans"; the lines
\* returned are the lines of the matched block for which that holds, in
\* the block's order.
C6_Filtered ==
    pc = "done" =>
        LET Starts(ln, p) ==
                /\ Len(ln) >= Len(p)
                /\ Upper(SubSeq(ln, 1, Len(p))) = Upper(p)
            Good(ln) ==
                /\ Len(ln) > 3
                /\ ~Starts(ln, PRIS) /\ ~Starts(ln, ELVA)
                /\ ~Starts(ln, DAGENS) /\ ~Starts(ln, VECKANS)
        IN  /\ \A k \in 1..Len(items) : Good(items[k])
            /\ block /= <<>> => items = SelectSeq(clean_lines(block[1]), Good)

\* a matched block held a price line, a time line, a short line and two
\* dishes, and the two dishes were returned
C6_Witness ==
    /\ pc = "done"
    /\ block /= <<>>
    /\ Contains(block[1], <<"p","r","i","s"," ","9","5">>)
    /\ Contains(block[1], <<"\n","a","b","\n">>)
    /\ Len(items) = 2
    /\ Contains(items[1], <<"B","i","f","f">>)
    /\ Contains(items[2], <<"F","i","s","k">>)

\* the texts, empty ones left out, of the elements from place a to place b
TextsOf(doc, a, b) ==
    SelectSeq([i \in 1..(IF b > Len(doc) THEN Len(doc) - a + 1 ELSE b - a + 1)
                  |-> doc[a + i - 1].text], NonEmpty)

\* C10 as stated: the combined string is the text of the up to 80
\* siblings that follow the container, the 80th included.
C10_EightyFollowingSiblings ==
    (pc = "done" /\ Container(soup) /= 0) =>
        full = Join(<<"\n">>, TextsOf(soup, Container(soup) + 1, Container(soup) + 80))

\* C10, amended: the combined string is the text of the container itself
\* and of the up to 79 siblings that follow it (80 elements: the 79th
\* following sibling is included, the 80th is not), elements with empty
\* text left out, fewer when the siblings run out.
C10_ContainerAndSeventyNine ==
    (pc = "done" /\ Container(soup) /= 0) =>
        full = Join(<<"\n">>, TextsOf(soup, Container(soup), Container(soup) + 79))

\* a container with more than 80 following siblings: the text of the 79th
\* is in the combined string, that of the 80th is not
C10_Witness ==
    /\ pc = "done"
    /\ Container(soup) /= 0
    /\ Len(soup) > Container(soup) + 80
    /\ Contains(full, <<"\n", "n", "7", "9">>)
    /\ ~Contains(full, <<"n", "8", "0">>)
    /\ Contains(full, <<"4", "2", "\n", "n", "0", "1">>)

----------------------------------------------------------------------------
(* get_menu_for, render_html and main *)

FEI == <<"F","E","I">>
CIRKELN == <<"C","i","r","k","e","l","n">>

\* the registry, in the order of the dict
SOURCE_URLS ==
    << [key |-> FEI, url |-> "https://www.fei.se/meny-fei-restaurant-lounge"],
       [key |-> CIRKELN,
        url |-> "https://cirkelnstockholm.se/restauranger/restaurang-cirkeln/"] >>

DISPLAY_NAMES ==
    << [key |-> FEI, name |-> "FEI Restaurang & Lounge"],
       [key |-> CIRKELN, name |-> "Restaurang Cirkeln"] >>

LOGOS ==
    << [key |-> FEI, logo |-> "https://res.cloudinary.com/emg-prod/image/upload/c_limit,h_100,w_200/v1/institutes/institute10621/logos/logo"],
       [key |-> CIRKELN, logo |-> "https://cirkelnstockholm.se/wp-content/uploads/2021/09/c_restaurang-S-150x150.png"] >>

\* str.lower
Lower(s) == [k \in 1..Len(s) |-> LowerChar(s[k])]

DayMenu(key, its) == [restaurant_key |-> key, items |-> its]

\* get_menu_for, once fetch has returned the document
get_menu_for(key, doc, wd) ==
    DayMenu(key,
            IF Lower(key) = <<"f","e","i">> THEN parse_fei(doc, wd)
            ELSE IF Lower(key) = <<"c","i","r","k","e","l","n">> THEN parse_cirkeln(doc, wd)
            ELSE <<>>)

\* f"(fel vid hämtning: {e})"
ErrorItem(e) == <<"(","f","e","l"," ","v","i","d"," ","h",auml,"m","t","n","i","n","g",":"," ">> \o e \o <<")">>

\* a plausible slip: a handler that catches timeouts only
CatchesTimeoutOnly(e) == e = <<"t","i","m","e","o","u","t">>

\* except Exception
Catches(e) == TRUE

\* a plausible slip: a handler that drops the failing source
OnExceptionSkip(menus, key, e) == menus

\* the handler's body
OnException(menus, key, e) == Append(menus, DayMenu(key, <<ErrorItem(e)>>))

BR == <<"<","b","r",">">>

\* re.sub(r"\s*SEP\s*", "<br>", s) for a one-character SEP
RECURSIVE SubSep(_, _, _)
SubSep(s, sep, i) ==
    IF i > Len(s) THEN <<>>
    ELSE LET w == WsRun(s, i)
         IN  IF i + w <= Len(s) /\ s[i + w] = sep
             THEN BR \o SubSep(s, sep, i + w + 1 + WsRun(s, i + w + 1))
             ELSE <<s[i]>> \o SubSep(s, sep, i + 1)

force_linebreaks(t) == SubSep(SubSep(t, "/", 1), "|", 1)

\* the inner HTML of the placeholder line
Placeholder(wd) ==
    <<"<","e","m",">","i","n","g","e","n"," ","m","e","n","y"," ","h","i","t","t","a","d"," ","f",ouml,"r"," ">> \o Capitalize(wd) \o <<"<","/","e","m",">">>

\* a plausible slip: the dish loop without its else branch
DishLinesNoElse(dm, wd) ==
    [j \in 1..Len(dm.items) |-> force_linebreaks(dm.items[j])]

\* the inner HTML of each <div class='dish'> of one card
DishLines(dm, wd) ==
    IF dm.items /= <<>>
    THEN [j \in 1..Len(dm.items) |-> force_linebreaks(dm.items[j])]
    ELSE <<Placeholder(wd)>>

Lookup(table, key, field, default) ==
    IF \E k \in 1..Len(table) : table[k].key = key
    THEN table[CHOOSE k \in 1..Len(table) : table[k].key = key][field]
    ELSE default

\* the restaurant cards of the page; the fixed head, style and footer of
\* the template are left out
render_html(wd, menus) ==
    [k \in 1..Len(menus) |->
        [name |-> Lookup(DISPLAY_NAMES, menus[k].restaurant_key, "name",
                         menus[k].restaurant_key),
         logo |-> Lookup(LOGOS, menus[k].restaurant_key, "logo", ""),
         dishes |-> DishLines(menus[k], wd)]]

\* what str(e) of a failed fetch may be
Failures == {<<"t","i","m","e","o","u","t">>, <<"4","0","4"," ","C","l","i","e","n","t"," ","E","r","r","o","r">>}

SlashDoc ==
    << El("h3", TISDAG),
       [name |-> "ul", text |-> <<"F","i","s","k"," ","/"," ","C","h","i","p","s","|","S","a","l","l","a","d">>,
        lis |-> << <<"F","i","s","k"," ","/"," ","C","h","i","p","s","|","S","a","l","l","a","d">> >>] >>

\* the documents a fetch may return
Soups ==
    { SlashDoc,
      DocOf(<<"H3", "para", "deco", "wd", "para">>),
      DocOf(<<"H3", "br">>),
      CirkelnDoc("both", WeekDoc),
      CirkelnDoc("both", <<"tue", "kontakt", "dish">>),
      CirkelnDoc("none", WeekDoc) }

Init ==
    /\ pc = "loop"
    /\ weekday_upper \in Range(WEEKDAYS_FULL)
    /\ world = <<>>
    /\ day_menus = <<>>
    /\ fetches = [k \in 1..Len(SOURCE_URLS) |-> 0]
    /\ html = <<>>
    /\ written = 0
    /\ status = "running"
    /\ text = <<>> /\ lines = <<>> /\ soup = <<>> /\ items = <<>>
    /\ tried = <<>> /\ full = <<>> /\ block = <<>>

\* one pass of the source loop in which nothing raises
SourceOk ==
    /\ pc = "loop"
    /\ Len(world) < Len(SOURCE_URLS)
    /\ \E doc \in Soups :
          LET i == Len(world) + 1
          IN  /\ fetches' = [fetches EXCEPT ![i] = @ + 1]
              /\ world' = Append(world, [raised |-> FALSE, e |-> <<>>, soup |-> doc])
              /\ day_menus' = Append(day_menus,
                                     get_menu_for(SOURCE_URLS[i].key, doc, weekday_upper))
    /\ UNCHANGED <<pc, weekday_upper, html, written, status,
                   text, lines, soup, items, tried, full, block>>

\* one pass of the source loop in which get_menu_for raises
SourceRaises ==
    /\ pc = "loop"
    /\ Len(world) < Len(SOURCE_URLS)
    /\ \E e \in Failures :
          LET i == Len(world) + 1
          IN  /\ fetches' = [fetches EXCEPT ![i] = @ + 1]
              /\ world' = Append(world, [raised |-> TRUE, e |-> e, soup |-> <<>>])
              /\ IF Catches(e)
                 THEN /\ day_menus' = OnException(day_menus, SOURCE_URLS[i].key, e)
                      /\ UNCHANGED <<pc, status>>
                 ELSE /\ pc' = "aborted"
                      /\ status' = "raised in the source loop"
                      /\ UNCHANGED day_menus
    /\ UNCHANGED <<weekday_upper, html, written,
                   text, lines, soup, items, tried, full, block>>

\* the loop is over: html = render_html(weekday_upper, day_menus)
Render ==
    /\ pc = "loop"
    /\ Len(world) = Len(SOURCE_URLS)
    /\ html' = render_html(weekday_upper, day_menus)
    /\ pc' = "write"
    /\ UNCHANGED <<weekday_upper, world, day_menus, fetches, written, status,
                   text, lines, soup, items, tried, full, block>>

\* index.html is written and main returns 0
WriteFile ==
    /\ pc = "write"
    /\ written' = written + 1
    /\ status' = "exit 0"
    /\ pc' = "done"
    /\ UNCHANGED <<weekday_upper, world, day_menus, fetches, html,
                   text, lines, soup, items, tried, full, block>>

\* open or write raises: nothing catches it
WriteRaises ==
    /\ pc = "write"
    /\ status' = "raised in the write"
    /\ pc' = "aborted"
    /\ UNCHANGED <<weekday_upper, world, day_menus, fetches, html, written,
                   text, lines, soup, items, tried, full, block>>

Next == SourceOk \/ SourceRaises \/ Render \/ WriteFile \/ WriteRaises

Spec == Init /\ [][Next]_vars

\* C1: the list the source loop builds holds one DayMenu per source
\* processed, in SOURCE_URLS order; that of a source that raised has the
\* error message embedding the reason as its one item; that of a source
\* that did not raise is what its own document gives, whatever the other
\* sources did.  Once the loop is over there is one per entry of
\* SOURCE_URLS.
C1_OneMenuPerSource ==
    /\ Len(day_menus) = Len(world)
    /\ pc \in {"write", "done"} => Len(day_menus) = Len(SOURCE_URLS)
    /\ \A k \in 1..Len(day_menus) :
          /\ k <= Len(SOURCE_URLS)
          /\ day_menus[k].restaurant_key = SOURCE_URLS[k].key
          /\ world[k].raised =>
                /\ Len(day_menus[k].items) = 1
                /\ Contains(day_menus[k].items[1], world[k].e)
                /\ Contains(day_menus[k].items[1], <<"f","e","l"," ","v","i","d"," ","h",auml,"m","t","n","i","n","g">>)
          /\ ~world[k].raised =>
                day_menus[k] = get_menu_for(SOURCE_URLS[k].key, world[k].soup,
                                            weekday_upper)

\* the first source raised, the second did not and has its dishes
C1_Witness ==
    /\ pc = "write"
    /\ world[1].raised /\ ~world[2].raised
    /\ Len(day_menus) = 2
    /\ day_menus[1].items = <<ErrorItem(<<"t","i","m","e","o","u","t">>)>>
    /\ Len(day_menus[2].items) >= 2

\* C2: each source is fetched exactly once, in order; index.html is
\* written at most once and only with a DayMenu for every source; no
\* failure of a source stops the run before the write (the run is never
\* stuck short of its end); a run that ends with the file written returns
\* 0, and one that ends without it was aborted by the write raising.
C2_RunReachesWrite ==
    /\ \A k \in 1..Len(SOURCE_URLS) :
          fetches[k] = IF k <= Len(world) THEN 1 ELSE 0
    /\ written <= 1
    /\ written = 1 => (Len(day_menus) = Len(SOURCE_URLS) /\ pc = "done")
    /\ pc = "done" => (written = 1 /\ status = "exit 0")
    /\ pc = "aborted" =>
          /\ written = 0
          /\ status = "raised in the write"
          /\ Len(day_menus) = Len(SOURCE_URLS)
    /\ pc \notin {"done", "aborted"} =>
          ENABLED (SourceRaises \/ Render \/ WriteFile)

\* every source raised, and the file was written
C2_Witness ==
    /\ pc = "done"
    /\ written = 1
    /\ \A k \in 1..Len(SOURCE_URLS) : world[k].raised /\ fetches[k] = 1

\* C8: once the page is rendered, a card shows the placeholder if and only
\* if its source did not raise and gave no items; the card of a source
\* that raised shows the error line alone; a card with n >= 1 items shows
\* n dish lines in item order; items is always a sequence.
C8_PlaceholderIffEmpty ==
    /\ \A k \in 1..Len(day_menus) :
          day_menus[k].items = [j \in 1..Len(day_menus[k].items) |-> day_menus[k].items[j]]
    /\ pc \in {"write", "done", "aborted"} /\ html /= <<>> =>
          /\ Len(html) = Len(SOURCE_URLS)
          /\ \A k \in 1..Len(html) :
                LET shown == html[k].dishes
                    its == day_menus[k].items
                    found == IF world[k].raised THEN <<>>
                             ELSE get_menu_for(SOURCE_URLS[k].key, world[k].soup,
                                               weekday_upper).items
                IN  /\ (\E j \in 1..Len(shown) : shown[j] = Placeholder(weekday_upper))
                          <=> (~world[k].raised /\ found = <<>>)
                    /\ world[k].raised =>
                          shown = <<force_linebreaks(ErrorItem(world[k].e))>>
                    /\ Len(its) >= 1 =>
                          /\ Len(shown) = Len(its)
                          /\ \A j \in 1..Len(its) : shown[j] = force_linebreaks(its[j])

\* one card shows the placeholder for a fetched page with no menu, the
\* other the error line of a failed fetch
C8_Witness ==
    /\ pc = "done"
    /\ ~world[1].raised /\ world[2].raised
    /\ day_menus[1].items = <<>>
    /\ html[1].dishes = <<Placeholder(weekday_upper)>>
    /\ html[2].dishes = <<ErrorItem(<<"t","i","m","e","o","u","t">>)>>

=============================================================================
